---- MODULE Spec2Model ----
(***************************************************************************)
(* Model of modules/probe_driver/datadef/prblimit.py: the TriggerConfig    *)
(* record, a plain (non-frozen, eq=True) Python dataclass of five fields.  *)
(* The state is the set of live instances and the outcome of the last      *)
(* operation performed on them: construction, attribute read, attribute    *)
(* assignment and comparison with ==.                                      *)
(***************************************************************************)
EXTENDS Integers, Sequences, FiniteSets

VARIABLES heap, result

vars == <<heap, result>>

\* Number of TriggerConfig instances a run of Spec constructs.
MaxObjs == 1

\* Largest value of numpy's uint16, the type the two intensity fields are
\* annotated with.
UINT16_MAX == 65535

\* The field names, in declaration order (the order of the positional
\* parameters of the generated __init__ and of the tuples __eq__ compares).
Fields ==
  << "trigger_in_threshold",
     "trigger_in_duration_min",
     "trigger_in_duration_max",
     "intensity_in_min",
     "intensity_in_max" >>

FieldNames == { Fields[i] : i \in 1..Len(Fields) }

\* Values a caller supplies.  Thresholds are floats, written in tenths
\* (15 is 1.5); the dataclass stores whatever object it is given.
Thresholds == {0, 15}
Durations == {-1, 5, 10}
Intensities == {50, 100, 70000}

Domain(name) ==
  CASE name = "trigger_in_threshold" -> Thresholds
    [] name = "trigger_in_duration_min" -> Durations
    [] name = "trigger_in_duration_max" -> Durations
    [] name = "intensity_in_min" -> Intensities
    [] name = "intensity_in_max" -> Intensities

Args == Thresholds \X Durations \X Durations \X Intensities \X Intensities

\* A uint16-typed constructor: each intensity is cast to numpy.uint16, which
\* wraps it modulo 2^16.
TriggerConfig_wrapping(args) ==
  [ outcome |-> "ok",
    obj |-> [ trigger_in_threshold |-> args[1],
              trigger_in_duration_min |-> args[2],
              trigger_in_duration_max |-> args[3],
              intensity_in_min |-> args[4] % (UINT16_MAX + 1),
              intensity_in_max |-> args[5] % (UINT16_MAX + 1) ] ]

\* The two duration fields declared in the other order.
TriggerConfig_swapped(args) ==
  [ outcome |-> "ok",
    obj |-> [ trigger_in_threshold |-> args[1],
              trigger_in_duration_min |-> args[3],
              trigger_in_duration_max |-> args[2],
              intensity_in_min |-> args[4],
              intensity_in_max |-> args[5] ] ]

\* A constructor with a __post_init__ that checks the scalar domains and then
\* the ordering of each min/max pair, and raises.
TriggerConfig_validating(args) ==
  [ outcome |->
      IF \/ args[4] \notin 0..UINT16_MAX
         \/ args[5] \notin 0..UINT16_MAX
         \/ args[2] < 0
         \/ args[3] < 0
        THEN "RangeError"
        ELSE IF args[2] > args[3] \/ args[4] > args[5]
               THEN "InvalidRangeError"
               ELSE "ok",
    obj |-> [ trigger_in_threshold |-> args[1],
              trigger_in_duration_min |-> args[2],
              trigger_in_duration_max |-> args[3],
              intensity_in_min |-> args[4],
              intensity_in_max |-> args[5] ] ]

\* The call TriggerConfig(*args): the __init__ that @dataclass generates
\* assigns each positional argument to the field of the same position and
\* returns; the class defines no __post_init__, so nothing is checked,
\* converted or raised.
TriggerConfig(args) ==
  [ outcome |-> "ok",
    obj |-> [ trigger_in_threshold |-> args[1],
              trigger_in_duration_min |-> args[2],
              trigger_in_duration_max |-> args[3],
              intensity_in_min |-> args[4],
              intensity_in_max |-> args[5] ] ]

\* obj.name
getattr(obj, name) == obj[name]

\* obj.name = value: the dataclass is not frozen, so the assignment is
\* object.__setattr__ and rebinds the attribute.
setattr(obj, name, value) == [obj EXCEPT ![name] = value]

\* The tuple of field values the generated __eq__ compares.
astuple(obj) == [ i \in 1..Len(Fields) |-> obj[Fields[i]] ]

\* object.__eq__, what == is for a class declared with eq=False: identity.
eq_identity(self, other) == self = other

\* self == other, self and other being references to two TriggerConfig
\* instances (eq=True is the default of @dataclass): the generated __eq__
\* compares the tuples of the fields.
eq(self, other) == astuple(heap[self]) = astuple(heap[other])

NoResult == [ op |-> "none", outcome |-> "ok", ref |-> 0, other |-> 0,
              name |-> "", args |-> <<>>, value |-> 0 ]

Init ==
  /\ heap = <<>>
  /\ result = NoResult

\* c = TriggerConfig(a1, a2, a3, a4, a5).  A call that raises binds nothing.
Construct(args) ==
  /\ Len(heap) < MaxObjs
  /\ LET r == TriggerConfig(args) IN
       IF r.outcome = "ok"
         THEN /\ heap' = Append(heap, r.obj)
              /\ result' = [ NoResult EXCEPT !.op = "construct",
                                             !.ref = Len(heap) + 1,
                                             !.args = args ]
         ELSE /\ heap' = heap
              /\ result' = [ NoResult EXCEPT !.op = "construct",
                                             !.outcome = r.outcome,
                                             !.args = args ]

\* v = c.name
Read(ref, name) ==
  /\ ref \in 1..Len(heap)
  /\ heap' = heap
  /\ result' = [ NoResult EXCEPT !.op = "getattr", !.ref = ref, !.name = name,
                                 !.value = getattr(heap[ref], name) ]

\* c.name = value
Assign(ref, name, value) ==
  /\ ref \in 1..Len(heap)
  /\ heap' = [heap EXCEPT ![ref] = setattr(@, name, value)]
  /\ result' = [ NoResult EXCEPT !.op = "setattr", !.ref = ref ]

\* a == b
Compare(a, b) ==
  /\ a \in 1..Len(heap)
  /\ b \in 1..Len(heap)
  /\ heap' = heap
  /\ result' = [ NoResult EXCEPT !.op = "eq", !.ref = a, !.other = b,
                                 !.value = IF eq(a, b) THEN 1 ELSE 0 ]

Next ==
  \/ \E args \in Args : Construct(args)
  \/ \E ref \in 1..MaxObjs, name \in FieldNames : Read(ref, name)
  \/ \E ref \in 1..MaxObjs, name \in FieldNames :
       \E value \in Domain(name) : Assign(ref, name, value)
  \/ \E a \in 1..MaxObjs, b \in 1..MaxObjs : Compare(a, b)

Spec == Init /\ [][Next]_vars

\* Two instances, each built by the constructor from any five values, and
\* the comparisons a == a, a == b, b == a, b == b.
InitEq ==
  /\ \E x \in Args, y \in Args :
       heap = << TriggerConfig(x).obj, TriggerConfig(y).obj >>
  /\ result = NoResult

NextEq == \E a \in 1..2, b \in 1..2 : Compare(a, b)

SpecEq == InitEq /\ [][NextEq]_vars

(***************************************************************************)
(* The domain of a TriggerConfig as the specification states it.           *)
(***************************************************************************)
InUint16(v) == v \in 0..UINT16_MAX

ArgsIntensitiesInRange(args) == InUint16(args[4]) /\ InUint16(args[5])
ArgsDurationsNonNegative(args) == args[2] >= 0 /\ args[3] >= 0
ArgsDurationsOrdered(args) == args[2] <= args[3]
ArgsIntensitiesOrdered(args) == args[4] <= args[5]

ArgsValid(args) ==
  /\ ArgsIntensitiesInRange(args)
  /\ ArgsDurationsNonNegative(args)
  /\ ArgsDurationsOrdered(args)
  /\ ArgsIntensitiesOrdered(args)

ObjValid(obj) ==
  /\ obj.trigger_in_duration_min <= obj.trigger_in_duration_max
  /\ obj.intensity_in_min <= obj.intensity_in_max
  /\ InUint16(obj.intensity_in_min) /\ InUint16(obj.intensity_in_max)
  /\ obj.trigger_in_duration_min >= 0 /\ obj.trigger_in_duration_max >= 0

\* The last operation was a construction.
Constructed == result.op = "construct"

\* The last construction returned an instance whose fields, read one by one,
\* are the five arguments in positional order.
StoredAsGiven ==
  /\ result.outcome = "ok"
  /\ result.ref \in 1..Len(heap)
  /\ \A i \in 1..Len(Fields) :
       getattr(heap[result.ref], Fields[i]) = result.args[i]

\* The last construction raised exc and produced no instance.
Raised(exc) == result.outcome = exc /\ result.ref = 0

(***************************************************************************)
(* C1: a construction from valid inputs (ordered pairs, intensities in     *)
(* 0..65535, durations >= 0) succeeds, and reading each of the five fields *)
(* returns the argument of the same position.                              *)
(***************************************************************************)
C1_RoundTrip == Constructed /\ ArgsValid(result.args) => StoredAsGiven

C1_Witness ==
  /\ Constructed
  /\ result.args = <<15, 5, 10, 50, 100>>
  /\ result.outcome = "ok"
  /\ heap[result.ref].trigger_in_duration_max = 10

(***************************************************************************)
(* C2: a construction with intensity_in_min or intensity_in_max outside    *)
(* 0..65535 fails with RangeError and produces no instance.                *)
(***************************************************************************)
C2_IntensityRangeError ==
  Constructed /\ ~ArgsIntensitiesInRange(result.args) => Raised("RangeError")

(***************************************************************************)
(* C3: a construction with a negative trigger_in_duration_min or           *)
(* trigger_in_duration_max fails with RangeError and produces no instance. *)
(***************************************************************************)
C3_DurationRangeError ==
  Constructed /\ ~ArgsDurationsNonNegative(result.args) => Raised("RangeError")

(***************************************************************************)
(* C4: a construction with trigger_in_duration_min >                       *)
(* trigger_in_duration_max, both non-negative, fails with                  *)
(* InvalidRangeError and produces no instance.                             *)
(***************************************************************************)
C4_DurationInvalidRange ==
  /\ Constructed
  /\ ArgsDurationsNonNegative(result.args)
  /\ ~ArgsDurationsOrdered(result.args)
  => Raised("InvalidRangeError")

(***************************************************************************)
(* C5: a construction with intensity_in_min > intensity_in_max, both in    *)
(* 0..65535, fails with InvalidRangeError and produces no instance.        *)
(***************************************************************************)
C5_IntensityInvalidRange ==
  /\ Constructed
  /\ ArgsIntensitiesInRange(result.args)
  /\ ~ArgsIntensitiesOrdered(result.args)
  => Raised("InvalidRangeError")

(***************************************************************************)
(* C6: an instance is immutable: no operation, an attempted field          *)
(* assignment included, changes a field of an existing instance.           *)
(***************************************************************************)
C6_Immutable == [][\A i \in 1..Len(heap) : heap'[i] = heap[i]]_vars

(***************************************************************************)
(* C7: every instance that exists satisfies the four domain invariants:    *)
(* both pairs ordered, intensities in 0..65535, durations >= 0.            *)
(***************************************************************************)
C7_DomainInvariants == \A i \in 1..Len(heap) : ObjValid(heap[i])

(***************************************************************************)
(* C8: a construction never repairs a value (no wrap modulo 65536, clamp,  *)
(* swap or default): it either returns an instance whose fields equal the  *)
(* inputs exactly, or raises and returns none.                             *)
(***************************************************************************)
C8_NoRepair ==
  Constructed =>
    \/ StoredAsGiven
    \/ result.outcome # "ok" /\ result.ref = 0

C8_Witness ==
  /\ Constructed
  /\ result.args[4] = 70000
  /\ result.ref \in 1..Len(heap)
  /\ heap[result.ref].intensity_in_min = 70000

(***************************************************************************)
(* C9: the definition enforces no range or ordering check: a construction  *)
(* from any five values (intensities outside 0..65535, negative durations  *)
(* and min > max pairs included) succeeds and stores the values as given.  *)
(***************************************************************************)
C9_NoValidation == Constructed => StoredAsGiven

C9_Witness ==
  /\ Constructed
  /\ result.args = <<0, 10, -1, 70000, 50>>
  /\ result.outcome = "ok"
  /\ astuple(heap[result.ref]) = <<0, 10, -1, 70000, 50>>

(***************************************************************************)
(* C10: two instances compare equal if and only if all five corresponding  *)
(* fields are equal; two instances built from the same five values are     *)
(* equal, and instances that differ in a field are unequal.                *)
(***************************************************************************)
C10_ValueEquality ==
  result.op = "eq" =>
    ( result.value = 1 <=>
        \A f \in FieldNames : heap[result.ref][f] = heap[result.other][f] )

C10_Witness ==
  /\ result.op = "eq"
  /\ result.ref # result.other
  /\ result.value = 1
  /\ heap[result.ref].intensity_in_max = heap[result.other].intensity_in_max

====
